---- MODULE Spec2Model ----
(***************************************************************************)
(* Model of the movie browser's two client components.                     *)
(*                                                                         *)
(*   Home            (src/app/page.tsx)      query / movies / loading      *)
(*   MovieDetailPage (src/unnamed/part_000)  movie / credits / loading /   *)
(*                                           error                         *)
(*                                                                         *)
(* Exactly one of the two components is mounted, chosen by the route the   *)
(* browser was opened on.  Both run on the single JavaScript thread: an    *)
(* action is one callback (an event handler, or the code that runs from    *)
(* one settled await to the next), and React applies the setState calls    *)
(* of one callback together, so the states of this model are the states a  *)
(* render can observe.                                                     *)
(***************************************************************************)
EXTENDS Integers, Sequences, FiniteSets, TLC

\* ------------------------------------------------------------------ bounds
MaxLen == 1          \* longest query text typed into the input
MaxSearches == 2     \* search requests issued in one behaviour
MaxRuns == 2         \* runs of the detail effect in one behaviour
NumIds == 2          \* distinct movie identifiers in the route

VARIABLES
    route,      \* which page component is mounted
    query,      \* Home: useState("")
    movies,     \* Home: useState<Movie[]>([])
    loading,    \* useState(false) in Home, useState(true) in MovieDetailPage
    searches,   \* Home: the pending handleSearch calls, by request number
    issued,     \* Home: number of search requests sent so far
    id,         \* MovieDetailPage: useParams().id of the latest effect run
    movie,      \* MovieDetailPage: useState<MovieDetail | null>(null)
    credits,    \* MovieDetailPage: useState<Credits | null>(null)
    error,      \* MovieDetailPage: useState<string | null>(null)
    runs,       \* MovieDetailPage: the fetchMovieDetail calls, by run number
    ev          \* the callback that ran last (history, not program state)

homeVars == <<query, movies, searches, issued>>
detailVars == <<id, movie, credits, error, runs>>
vars == <<route, query, movies, loading, searches, issued,
          id, movie, credits, error, runs, ev>>

\* ---------------------------------------------------------------- values
HomeRoute == "/"
DetailRoute == "/movie/[id]"

\* UTF-16 code units of the query text: an unreserved character, a character
\* that must be escaped, and the two halves of a surrogate pair.
Unreserved == {"a"}
Escaped == {" "}
HighSurrogate == "\\uD83D"
LowSurrogate == "\\uDE00"
Chars == Unreserved \cup Escaped \cup {HighSurrogate, LowSurrogate}

RECURSIVE SeqsUpTo(_)
SeqsUpTo(n) ==
    IF n = 0 THEN {<<>>}
    ELSE LET shorter == SeqsUpTo(n - 1)
         IN shorter \cup {Append(s, c) : s \in {t \in shorter : Len(t) = n - 1},
                                         c \in Chars}

Queries == SeqsUpTo(MaxLen)

URIError == <<"URIError">>

\* encodeURIComponent: unreserved code units are copied, the others are
\* replaced by the %XX escapes of their UTF-8 encoding; a surrogate half
\* that is not part of a high/low pair makes the call throw URIError.
RECURSIVE WellFormed(_)
WellFormed(s) ==
    IF s = <<>> THEN TRUE
    ELSE IF Head(s) = LowSurrogate THEN FALSE
    ELSE IF Head(s) = HighSurrogate
         THEN /\ Len(s) >= 2
              /\ s[2] = LowSurrogate
              /\ WellFormed(Tail(Tail(s)))
    ELSE WellFormed(Tail(s))

RECURSIVE Escape(_)
Escape(s) ==
    IF s = <<>> THEN <<>>
    ELSE IF Head(s) \in Unreserved THEN <<Head(s)>> \o Escape(Tail(s))
    ELSE IF Head(s) = HighSurrogate
         THEN <<"%F0", "%9F", "%98", "%80">> \o Escape(Tail(Tail(s)))
    ELSE <<"%20">> \o Escape(Tail(s))

encodeURIComponent(s) == IF WellFormed(s) THEN Escape(s) ELSE URIError

\* The URL of the search request (the api_key parameter is a constant of the
\* build and is left out).
SearchUrl(q) == [path |-> "/3/search/movie", query |-> encodeURIComponent(q)]

\* Parsed bodies of a search response: an object with or without a results
\* array.  TMDB's error bodies have no results field.
MovieLists == {<<>>, <<1>>, <<1, 2>>}
SearchData == {[has |-> FALSE, results |-> <<>>]}
              \cup {[has |-> TRUE, results |-> l] : l \in MovieLists}

\* data.results || []   (an array, empty or not, is truthy; undefined is not)
ResultsOrEmpty(data) == IF data.has THEN data.results ELSE <<>>

SearchIds == 1..MaxSearches
RunIds == 1..MaxRuns
Ids == 1..NumIds

Null == [kind |-> "null"]
NoError == "null"
NoId == 0

IdleRun == [st |-> "idle", id |-> NoId, movieRes |-> "none", creditsRes |-> "none"]

\* ev names the callback that ran last: its kind, the search request or
\* detail run it belongs to (0 for none) and its arguments.
NoEvent == [op |-> "mount", who |-> 0, arg |-> <<>>]
Event(op, who, arg) == [op |-> op, who |-> who, arg |-> arg]

\* ------------------------------------------------------------------ Init
Init ==
    /\ route \in {HomeRoute, DetailRoute}
    /\ query = <<>>
    /\ movies = <<>>
    /\ loading = (route = DetailRoute)
    /\ searches = << >>
    /\ issued = 0
    /\ id = NoId
    /\ movie = Null
    /\ credits = Null
    /\ error = NoError
    /\ runs = [r \in RunIds |-> IdleRun]
    /\ ev = NoEvent

\* ------------------------------------------------------------------ Home
\* onChange={(e) => setQuery(e.target.value)}
setQuery(q) ==
    /\ route = HomeRoute
    /\ q # query
    /\ query' = q
    /\ ev' = Event("setQuery", 0, <<>>)
    /\ UNCHANGED <<route, movies, loading, searches, issued, detailVars>>

InFlight == DOMAIN searches

NotQuery_NeverReturns(q) == FALSE

\* if (!query) return;   (the empty string is the only falsy string)
NotQuery(q) == q = <<>>

ClearedResults_KeepsPrevious(prev) == prev

\* setMovies([]) at the start of a search.
ClearedResults(prev) == <<>>

\* handleSearch up to its first await.
\*   - empty query: return.
\*   - encodeURIComponent throws inside the try block: the catch and finally
\*     blocks run in the same callback, so the net effect of the four
\*     setState calls is movies = [] and loading = false, and fetch is never
\*     called.
\*   - otherwise the request is sent and the call is suspended.
handleSearch ==
    /\ route = HomeRoute
    /\ IF NotQuery(query)
       THEN /\ ev' = Event("handleSearch", 0, <<query, movies>>)
            /\ UNCHANGED <<movies, loading, searches, issued>>
       ELSE IF encodeURIComponent(query) = URIError
       THEN /\ ev' = Event("handleSearch", 0, <<query, movies>>)
            /\ movies' = <<>>
            /\ loading' = FALSE
            /\ UNCHANGED <<searches, issued>>
       ELSE /\ issued < MaxSearches
            /\ ev' = Event("handleSearch", issued + 1, <<query, movies>>)
            /\ loading' = TRUE
            /\ movies' = ClearedResults(movies)
            /\ issued' = issued + 1
            /\ searches' = [k \in InFlight \cup {issued + 1} |->
                              IF k = issued + 1
                              THEN [st |-> "fetch", url |-> SearchUrl(query)]
                              ELSE searches[k]]
    /\ UNCHANGED <<route, query, detailVars>>

SearchFailed_KeepsLoading(k) ==
    /\ movies' = <<>>
    /\ searches' = [j \in InFlight \ {k} |-> searches[j]]
    /\ UNCHANGED loading

\* catch { setMovies([]) } finally { setLoading(false) }
SearchFailed(k) ==
    /\ movies' = <<>>
    /\ loading' = FALSE
    /\ searches' = [j \in InFlight \ {k} |-> searches[j]]

SearchDone_LatestOnly(k, data) ==
    /\ movies' = IF k = issued THEN ResultsOrEmpty(data) ELSE movies
    /\ loading' = FALSE
    /\ searches' = [j \in InFlight \ {k} |-> searches[j]]

\* setMovies(data.results || []) ... finally { setLoading(false) }
SearchDone(k, data) ==
    /\ movies' = ResultsOrEmpty(data)
    /\ loading' = FALSE
    /\ searches' = [j \in InFlight \ {k} |-> searches[j]]

\* await fetch(...) settles with a response, whatever its status: the call
\* goes on to response.json().
SearchFetchResolve(k) ==
    /\ k \in InFlight
    /\ searches[k].st = "fetch"
    /\ searches' = [searches EXCEPT ![k].st = "json"]
    /\ ev' = Event("searchResponse", k, <<>>)
    /\ UNCHANGED <<route, query, movies, loading, issued, detailVars>>

\* await fetch(...) rejects (transport error).
SearchFetchReject(k) ==
    /\ k \in InFlight
    /\ searches[k].st = "fetch"
    /\ SearchFailed(k)
    /\ ev' = Event("fetchRejected", k, <<>>)
    /\ UNCHANGED <<route, query, issued, detailVars>>

\* await response.json() resolves with the parsed body.
SearchJsonResolve(k, data) ==
    /\ k \in InFlight
    /\ searches[k].st = "json"
    /\ SearchDone(k, data)
    /\ ev' = Event("searchDone", k, <<data>>)
    /\ UNCHANGED <<route, query, issued, detailVars>>

\* await response.json() rejects (the body is not JSON).
SearchJsonReject(k) ==
    /\ k \in InFlight
    /\ searches[k].st = "json"
    /\ SearchFailed(k)
    /\ ev' = Event("jsonRejected", k, <<>>)
    /\ UNCHANGED <<route, query, issued, detailVars>>

HomeNext ==
    \/ \E q \in Queries : setQuery(q)
    \/ handleSearch
    \/ \E k \in SearchIds : SearchFetchResolve(k)
    \/ \E k \in SearchIds : SearchFetchReject(k)
    \/ \E k \in SearchIds, data \in SearchData : SearchJsonResolve(k, data)
    \/ \E k \in SearchIds : SearchJsonReject(k)

\* ------------------------------------------------------- MovieDetailPage
MovieFailed == "Failed to fetch movie details."
CreditsFailed == "Failed to fetch credits."
Unexpected == "An unexpected error occurred."

\* What the awaited promises reject with: fetch rejects with a TypeError,
\* Response.json() with a SyntaxError.
TransportError == [isError |-> TRUE, message |-> "Failed to fetch"]
ParseError == [isError |-> TRUE, message |-> "Unexpected token < in JSON"]
NewError(msg) == [isError |-> TRUE, message |-> msg]

\* err instanceof Error ? err.message : "An unexpected error occurred."
ErrorText(err) == IF err.isError THEN err.message ELSE Unexpected

\* The parsed bodies of the two responses of run r.  The provider's answer
\* to every request is taken to be distinguishable from its answer to any
\* other, so that a stored value shows which run it came from.
MovieBody(r) == [kind |-> "movie", id |-> runs[r].id, req |-> r]
CreditsBody(r) == [kind |-> "credits", id |-> runs[r].id, req |-> r]

Started == {r \in RunIds : runs[r].st # "idle"}

\* The four-way rendering of MovieDetailPage.
RenderState ==
    IF loading THEN "Loading"
    ELSE IF error # NoError /\ error # "" THEN "Error"
    ELSE IF movie = Null THEN "Empty"
    ELSE "Ready"

\* useEffect(() => { if (!id) return; ... fetchMovieDetail(); }, [id]):
\* fetchMovieDetail up to its await.  Both fetch calls are made before the
\* call is suspended on Promise.all.
Effect(i) ==
    /\ route = DetailRoute
    /\ Cardinality(Started) < MaxRuns
    /\ LET r == Cardinality(Started) + 1
       IN /\ id' = i
          /\ IF i = NoId
             THEN UNCHANGED <<loading, error, runs>>
             ELSE /\ loading' = TRUE
                  /\ error' = NoError
                  /\ runs' = [runs EXCEPT ![r] =
                                [st |-> "all", id |-> i,
                                 movieRes |-> "pending",
                                 creditsRes |-> "pending"]]
          /\ ev' = Event("effect", r, <<>>)
    /\ UNCHANGED <<route, movie, credits, homeVars>>

DetailFailed_NoSetError(r, err, rs) ==
    /\ loading' = FALSE
    /\ runs' = [rs EXCEPT ![r].st = "done"]
    /\ UNCHANGED <<movie, credits, error>>

\* catch (err) { setError(...) } finally { setLoading(false) }
DetailFailed(r, err, rs) ==
    /\ error' = ErrorText(err)
    /\ loading' = FALSE
    /\ runs' = [rs EXCEPT ![r].st = "done"]
    /\ UNCHANGED <<movie, credits>>

\* setMovie(movieData); setCredits(creditsData); finally { setLoading(false) }
DetailLoaded(r) ==
    /\ movie' = MovieBody(r)
    /\ credits' = CreditsBody(r)
    /\ loading' = FALSE
    /\ runs' = [runs EXCEPT ![r].st = "done"]
    /\ UNCHANGED error

PromiseAll_FirstWins(a, b) ==
    IF a = "rejected" \/ b = "rejected" THEN "rejected"
    ELSE IF a = "pending" /\ b = "pending" THEN "pending"
    ELSE "fulfilled"

\* Promise.all([movieP, creditsP]): rejected as soon as one of the two is
\* rejected, fulfilled once both are fulfilled, pending otherwise.
PromiseAll(a, b) ==
    IF a = "rejected" \/ b = "rejected" THEN "rejected"
    ELSE IF a = "pending" \/ b = "pending" THEN "pending"
    ELSE "fulfilled"

StatusCheck_SwappedMessages(movieRes, creditsRes) ==
    IF movieRes # "ok" THEN NewError(CreditsFailed)
    ELSE IF creditsRes # "ok" THEN NewError(MovieFailed)
    ELSE Null

\* if (!movieRes.ok) throw ...; if (!creditsRes.ok) throw ...
\* The error thrown by the two status checks, or Null when both pass.
StatusCheck(movieRes, creditsRes) ==
    IF movieRes # "ok" THEN NewError(MovieFailed)
    ELSE IF creditsRes # "ok" THEN NewError(CreditsFailed)
    ELSE Null

\* One of the two fetch promises of run r settles: with a response whose
\* status is a success ("ok") or not ("bad"), or with a rejection.  If that
\* settles the Promise.all the run is suspended on, the run resumes in the
\* same turn: into the catch block on a rejection or a failed status check,
\* to movieRes.json() otherwise.  A request that settles after its run has
\* left the await has no effect.
FetchSettle(r, which, outcome) ==
    /\ route = DetailRoute
    /\ runs[r].st # "idle"
    /\ runs[r][which] = "pending"
    /\ LET rs == [runs EXCEPT ![r][which] = outcome]
           all == PromiseAll(rs[r].movieRes, rs[r].creditsRes)
           thrown == StatusCheck(rs[r].movieRes, rs[r].creditsRes)
       IN IF runs[r].st # "all" \/ all = "pending"
          THEN /\ runs' = rs
               /\ ev' = Event("settle", r, <<>>)
               /\ UNCHANGED <<movie, credits, error, loading>>
          ELSE IF all = "rejected"
          THEN /\ DetailFailed(r, TransportError, rs)
               /\ ev' = Event("fetchRejected", r, <<>>)
          ELSE IF thrown # Null
          THEN /\ DetailFailed(r, thrown, rs)
               /\ ev' = Event("statusFailed", r, <<>>)
          ELSE /\ runs' = [rs EXCEPT ![r].st = "movieJson"]
               /\ ev' = Event("responses", r, <<>>)
               /\ UNCHANGED <<movie, credits, error, loading>>
    /\ UNCHANGED <<route, id, homeVars>>

MovieJsonResolve_StoresMovie(r) ==
    /\ route = DetailRoute
    /\ runs[r].st = "movieJson"
    /\ runs' = [runs EXCEPT ![r].st = "creditsJson"]
    /\ movie' = MovieBody(r)
    /\ ev' = Event("movieJson", r, <<>>)
    /\ UNCHANGED <<route, id, credits, error, loading, homeVars>>

\* await movieRes.json() resolves: the run goes on to creditsRes.json().
MovieJsonResolve(r) ==
    /\ route = DetailRoute
    /\ runs[r].st = "movieJson"
    /\ runs' = [runs EXCEPT ![r].st = "creditsJson"]
    /\ ev' = Event("movieJson", r, <<>>)
    /\ UNCHANGED <<route, id, movie, credits, error, loading, homeVars>>

\* await movieRes.json() rejects.
MovieJsonReject(r) ==
    /\ route = DetailRoute
    /\ runs[r].st = "movieJson"
    /\ DetailFailed(r, ParseError, runs)
    /\ ev' = Event("movieJsonRejected", r, <<>>)
    /\ UNCHANGED <<route, id, homeVars>>

\* await creditsRes.json() resolves: both bodies are stored.
CreditsJsonResolve(r) ==
    /\ route = DetailRoute
    /\ runs[r].st = "creditsJson"
    /\ DetailLoaded(r)
    /\ ev' = Event("detailLoaded", r, <<>>)
    /\ UNCHANGED <<route, id, homeVars>>

\* await creditsRes.json() rejects.
CreditsJsonReject(r) ==
    /\ route = DetailRoute
    /\ runs[r].st = "creditsJson"
    /\ DetailFailed(r, ParseError, runs)
    /\ ev' = Event("creditsJsonRejected", r, <<>>)
    /\ UNCHANGED <<route, id, homeVars>>

Requests == {"movieRes", "creditsRes"}
Outcomes == {"ok", "bad", "rejected"}

DetailNext ==
    \/ \E i \in Ids : Effect(i)
    \/ \E r \in RunIds, w \in Requests, o \in Outcomes : FetchSettle(r, w, o)
    \/ \E r \in RunIds : MovieJsonResolve(r)
    \/ \E r \in RunIds : MovieJsonReject(r)
    \/ \E r \in RunIds : CreditsJsonResolve(r)
    \/ \E r \in RunIds : CreditsJsonReject(r)

Next == HomeNext \/ DetailNext

Spec == Init /\ [][Next]_vars

\* A callback that is due runs: a request that was sent is answered or
\* fails, and a Response.json() call settles.  This is the assumption under
\* which the loading flag is claimed to be cleared; nothing is assumed about
\* when the user acts.
Settle ==
    \/ \E k \in SearchIds : SearchFetchResolve(k) \/ SearchFetchReject(k)
    \/ \E k \in SearchIds : SearchJsonReject(k)
    \/ \E k \in SearchIds, data \in SearchData : SearchJsonResolve(k, data)
    \/ \E r \in RunIds, w \in Requests, o \in Outcomes : FetchSettle(r, w, o)
    \/ \E r \in RunIds : MovieJsonResolve(r) \/ MovieJsonReject(r)
    \/ \E r \in RunIds : CreditsJsonResolve(r) \/ CreditsJsonReject(r)

Fairness == WF_vars(Settle)

LiveSpec == Init /\ [][Next]_vars /\ Fairness

\* ================================================================ claims
SearchCompletions == {"searchDone", "fetchRejected", "jsonRejected"}
Active == {"all", "movieJson", "creditsJson"}
Busy == InFlight # {} \/ \E r \in RunIds : runs[r].st \in Active
Finishes(r) == runs[r].st \in Active /\ runs'[r].st = "done"
Failed(res) == res \in {"bad", "rejected"}

\* C1: a submission with a non-empty query sends exactly one search request,
\* whose query parameter is the URL-encoded query text; and when a request
\* succeeds, movies becomes the results array of the response, or the empty
\* list when the response has no results field.
C1_OneRequestPerSubmission ==
    [][/\ (ev'.op = "handleSearch" /\ query # <<>>) =>
            /\ issued' = issued + 1
            /\ InFlight' = InFlight \cup {issued'}
            /\ searches'[issued'].url.path = "/3/search/movie"
            /\ searches'[issued'].url.query = encodeURIComponent(query)
            /\ searches'[issued'].url.query # URIError
       /\ ev'.op = "searchDone" =>
            movies' = IF ev'.arg[1].has THEN ev'.arg[1].results ELSE <<>>
      ]_vars

\* C7: submitting with an empty query sends no request and leaves query,
\* movies and loading as they were, also while a search is in flight.
C7_EmptyQueryNoOp ==
    [][(ev'.op = "handleSearch" /\ query = <<>>) =>
          UNCHANGED <<query, movies, loading, searches, issued>>]_vars

C7_Witness ==
    /\ ev.op = "handleSearch"
    /\ query = <<>>
    /\ loading
    /\ InFlight # {}

\* C4: loading is never true while movies is non-empty, and every submission
\* that sends a request leaves movies empty.
C4_NeverLoadingWithResults ==
    /\ [](~(loading /\ movies # <<>>))
    /\ [][issued' # issued => movies' = <<>>]_vars

C4_Witness ==
    /\ ev.op = "handleSearch"
    /\ ev.who = 2
    /\ ev.arg[2] # <<>>
    /\ loading
    /\ movies = <<>>

\* C8: no search request is cancelled (a request leaves the set of pending
\* requests only through its own completion), and when the last pending
\* request completes, movies is the outcome of that completion: its results
\* array, or the empty list if it failed.
C8_LastCompletionWins ==
    /\ [][\A k \in InFlight :
            k \notin InFlight' => ev'.who = k /\ ev'.op \in SearchCompletions]_vars
    /\ []((route = HomeRoute /\ InFlight = {} /\ ev.op \in SearchCompletions) =>
            movies = IF ev.op = "searchDone" /\ ev.arg[1].has
                     THEN ev.arg[1].results ELSE <<>>)

C8_Witness ==
    /\ route = HomeRoute
    /\ InFlight = {}
    /\ issued = 2
    /\ ev.op = "searchDone"
    /\ ev.who = 1
    /\ movies # <<>>

\* C2 (as stated): whenever a run of the detail flow finishes after one of
\* its two requests failed, loading is false, error is set, the Error state
\* is rendered, movie is null, and the run has written neither movie nor
\* credits.
C2_FailedRunLeavesMovieNull ==
    [][\A r \in RunIds :
         (Finishes(r) /\ (Failed(runs'[r].movieRes) \/ Failed(runs'[r].creditsRes)))
         => /\ loading' = FALSE
            /\ error' # NoError
            /\ RenderState' = "Error"
            /\ movie' = Null
            /\ UNCHANGED <<movie, credits>>]_vars

\* C2 (amended): whenever a run of the detail flow finishes after one of its
\* two requests failed, loading is false, error is set, the Error state is
\* rendered, and movie and credits are what they were before the run
\* finished (null only if no earlier run stored them).
C2_FailedRunShowsError ==
    [][\A r \in RunIds :
         (Finishes(r) /\ (Failed(runs'[r].movieRes) \/ Failed(runs'[r].creditsRes)))
         => /\ loading' = FALSE
            /\ error' # NoError
            /\ RenderState' = "Error"
            /\ UNCHANGED <<movie, credits>>]_vars

C2_Witness ==
    /\ ev.op \in {"fetchRejected", "statusFailed"}
    /\ runs[ev.who].st = "done"
    /\ RenderState = "Error"
    /\ movie # Null
    /\ movie.req # ev.who

\* C3: whenever a run of the detail flow finishes with both requests
\* successful and both bodies parsed, movie and credits are the two bodies of
\* that run, error is null, loading is false and the Ready state is rendered.
C3_SuccessfulRunReady ==
    [][ev'.op = "detailLoaded" =>
          /\ movie' = MovieBody(ev'.who)
          /\ credits' = CreditsBody(ev'.who)
          /\ error' = NoError
          /\ loading' = FALSE
          /\ RenderState' = "Ready"]_vars

\* C6: when both responses of a run have arrived and at least one has a
\* non-success status, error becomes "Failed to fetch movie details." or
\* "Failed to fetch credits.", and it is the message of a request whose
\* status was not a success; with a successful movie response it is the
\* credits message.
C6_StatusMessage ==
    [][\A r \in RunIds :
         LET run == runs'[r]
         IN (/\ Finishes(r)
             /\ run.movieRes \in {"ok", "bad"}
             /\ run.creditsRes \in {"ok", "bad"}
             /\ "bad" \in {run.movieRes, run.creditsRes})
            => /\ error' \in {MovieFailed, CreditsFailed}
               /\ error' = MovieFailed => run.movieRes = "bad"
               /\ error' = CreditsFailed => run.creditsRes = "bad"
               /\ run.movieRes = "ok" => error' = CreditsFailed]_vars

C6_Witness ==
    /\ ev.op = "statusFailed"
    /\ runs[ev.who].movieRes = "ok"
    /\ runs[ev.who].creditsRes = "bad"
    /\ error = CreditsFailed
    /\ movie = Null
    /\ credits = Null

\* C9 (as stated): a run starts with both of its requests in flight, and no
\* callback of the run writes movie, credits, error or loading while one of
\* its two requests is still in flight.
C9_NoWriteWhileInFlight ==
    [][/\ ev'.op = "effect" =>
            /\ runs'[ev'.who].movieRes = "pending"
            /\ runs'[ev'.who].creditsRes = "pending"
       /\ \A r \in RunIds :
            (/\ ev'.who = r
             /\ ev'.op # "effect"
             /\ "pending" \in {runs'[r].movieRes, runs'[r].creditsRes})
            => UNCHANGED <<movie, credits, error, loading>>]_vars

\* C9 (amended): a run starts with both of its requests in flight, and no
\* callback of the run writes movie, credits, error or loading while one of
\* its two requests is still in flight and neither has been rejected; the
\* rejection of one request ends the wait although the other is in flight.
C9_NoWriteWhileJoined ==
    [][/\ ev'.op = "effect" =>
            /\ runs'[ev'.who].movieRes = "pending"
            /\ runs'[ev'.who].creditsRes = "pending"
       /\ \A r \in RunIds :
            (/\ ev'.who = r
             /\ ev'.op # "effect"
             /\ "pending" \in {runs'[r].movieRes, runs'[r].creditsRes}
             /\ "rejected" \notin {runs'[r].movieRes, runs'[r].creditsRes})
            => UNCHANGED <<movie, credits, error, loading>>]_vars

C9_Witness ==
    /\ ev.op = "settle"
    /\ runs[ev.who].st = "all"
    /\ runs[ev.who].movieRes = "ok"
    /\ runs[ev.who].creditsRes = "pending"
    /\ loading
    /\ \E r \in RunIds : /\ runs[r].st = "done"
                         /\ runs[r].movieRes = "rejected"
                         /\ runs[r].creditsRes = "pending"

\* C10: movie and credits are both null, or they are the two response bodies
\* of one finished run of the detail flow.
C10_MovieAndCreditsPaired ==
    \/ movie = Null /\ credits = Null
    \/ \E r \in RunIds : /\ runs[r].st = "done"
                         /\ movie = MovieBody(r)
                         /\ credits = CreditsBody(r)

C10_Witness ==
    /\ movie = MovieBody(1)
    /\ credits = CreditsBody(1)
    /\ runs[2].st = "done"
    /\ ev.op = "detailLoaded"
    /\ ev.who = 1

\* C5: whenever a search request or a detail run is pending, a state is
\* reached in which none is pending and loading is false; the callback that
\* finishes a request or a run leaves loading false, and loading turns true
\* only in a submission or an effect run.
C5_LoadingCleared ==
    /\ Busy ~> (~Busy /\ ~loading)
    /\ [][/\ \A k \in InFlight : k \notin InFlight' => loading' = FALSE
          /\ \A r \in RunIds : Finishes(r) => loading' = FALSE
          /\ (~loading /\ loading') => ev'.op \in {"handleSearch", "effect"}
         ]_vars

C5_Witness ==
    /\ ~Busy
    /\ ~loading
    /\ ev.op = "creditsJsonRejected"
    /\ ev.who = 2

====
